---------------------------- MODULE Spec2Model ----------------------------
(***************************************************************************)
(* Amazon stock checker v2: the poll loop of src/main.py, the durable      *)
(* per-ASIN state of src/state.py, the per-product check of                *)
(* src/checker.py and the CAPTCHA solver registry of                       *)
(* src/captcha_solvers/__init__.py.                                        *)
(*                                                                         *)
(* Python's None is the string "None" for the Optional[bool] / Optional[str]*)
(* fields, and the empty sequence for the Optional timestamps.  Page text  *)
(* is a sequence of one-character strings, so that str.lower() and the     *)
(* `in` substring test are computed and not assumed.                       *)
(***************************************************************************)
EXTENDS Integers, Sequences, FiniteSets, TLC

VARIABLES
    pc,             \* position of main() in its poll loop
    cycle_count,    \* main.py:77
    idx,            \* index of `product` in `products` (the for loop, main.py:99)
    data,           \* StateManager._data: ASIN -> ProductState, created lazily
    disk,           \* the state.json file: no file, unreadable, or a saved dict
    result,         \* the CheckResult of the current iteration (main.py:100)
    prev_in_stock,  \* main.py:108
    error_count,    \* main.py:113
    events,         \* the outward calls made during the current iteration
    written,        \* per ASIN, the availability last flushed by record_success
    restarts,       \* number of process restarts so far
    env,            \* unit runs: the page environment handed to the function
    probe,          \* unit runs: what the function returned
    config_file,    \* the config.json file
    config,         \* main.py:60, 85
    products,       \* main.py:71, 86
    notifiers,      \* main.py:63, 88
    checked,        \* the ASINs check_product was called for in this cycle
    interrupted,    \* a KeyboardInterrupt has been delivered
    stop_calls,     \* number of browser.stop() calls
    page_id,        \* BrowserManager._page: which page (and context) it holds
    used_pages,     \* the pages the checks of this cycle were handed
    rotations       \* rotate_context calls that returned in this cycle

\* the configuration file and the locals of main() loaded from it
cfg_vars == <<config_file, config, products, notifiers>>

\* the bookkeeping of the way main() is left
exit_vars == <<checked, interrupted, stop_calls>>

\* the browser session of the poll loop
session_vars == <<page_id, used_pages, rotations>>

vars == <<pc, cycle_count, idx, data, disk, result, prev_in_stock,
          error_count, events, written, restarts, env, probe, cfg_vars,
          exit_vars, session_vars>>

None == "None"

-----------------------------------------------------------------------------
(* Bounds of the model                                                     *)

\* cycles of the poll loop explored per process run
MaxCycles == 2

\* largest consecutive_errors found in a state file left by an earlier run
MaxStoredErrors == 9

\* process restarts explored
MaxRestarts == 1

-----------------------------------------------------------------------------
(* Page text: str.lower() and the substring test                           *)

\* the lower-case letter of every upper-case letter
LowerOf ==
    ("A" :> "a") @@ ("B" :> "b") @@ ("C" :> "c") @@ ("D" :> "d") @@
    ("E" :> "e") @@ ("F" :> "f") @@ ("G" :> "g") @@ ("H" :> "h") @@
    ("I" :> "i") @@ ("J" :> "j") @@ ("K" :> "k") @@ ("L" :> "l") @@
    ("M" :> "m") @@ ("N" :> "n") @@ ("O" :> "o") @@ ("P" :> "p") @@
    ("Q" :> "q") @@ ("R" :> "r") @@ ("S" :> "s") @@ ("T" :> "t") @@
    ("U" :> "u") @@ ("V" :> "v") @@ ("W" :> "w") @@ ("X" :> "x") @@
    ("Y" :> "y") @@ ("Z" :> "z")

LowerChar(c) == IF c \in DOMAIN LowerOf THEN LowerOf[c] ELSE c

\* str.lower()
Lower(text) == [i \in 1..Len(text) |-> LowerChar(text[i])]

\* `needle in text` for str
Contains(text, needle) ==
    \E i \in 1..(Len(text) - Len(needle) + 1) :
        SubSeq(text, i, i + Len(needle) - 1) = needle

\* "currently unavailable"
Signal1 ==
    <<"c","u","r","r","e","n","t","l","y"," ","u","n","a","v","a","i","l",
      "a","b","l","e">>

\* "out of stock"
Signal2 ==
    <<"o","u","t"," ","o","f"," ","s","t","o","c","k">>

\* "sign up for restock"
Signal3 ==
    <<"s","i","g","n"," ","u","p"," ","f","o","r"," ","r","e","s","t","o",
      "c","k">>

\* "we don't know when or if this item will be back in stock"
Signal4 ==
    <<"w","e"," ","d","o","n","'","t"," ","k","n","o","w"," ","w","h","e",
      "n"," ","o","r"," ","i","f"," ","t","h","i","s"," ","i","t","e","m",
      " ","w","i","l","l"," ","b","e"," ","b","a","c","k"," ","i","n"," ",
      "s","t","o","c","k">>

\* "no featured offers available"
Signal5 ==
    <<"n","o"," ","f","e","a","t","u","r","e","d"," ","o","f","f","e","r",
      "s"," ","a","v","a","i","l","a","b","l","e">>

OUT_OF_STOCK_SIGNALS == <<Signal1, Signal2, Signal3, Signal4, Signal5>>

\* "click the button below to continue shopping"
CAPTCHA_PHRASE ==
    <<"c","l","i","c","k"," ","t","h","e"," ","b","u","t","t","o","n"," ",
      "b","e","l","o","w"," ","t","o"," ","c","o","n","t","i","n","u","e",
      " ","s","h","o","p","p","i","n","g">>

\* "In Stock"
TextInStock ==
    <<"I","n"," ","S","t","o","c","k">>

\* "Currently unavailable."
TextUnavailable ==
    <<"C","u","r","r","e","n","t","l","y"," ","u","n","a","v","a","i","l",
      "a","b","l","e",".">>

\* "Temporarily OUT OF STOCK"
TextOutUpper ==
    <<"T","e","m","p","o","r","a","r","i","l","y"," ","O","U","T"," ","O",
      "F"," ","S","T","O","C","K">>

\* "No featured offers available"
TextNoOffers ==
    <<"N","o"," ","f","e","a","t","u","r","e","d"," ","o","f","f","e","r",
      "s"," ","a","v","a","i","l","a","b","l","e">>

\* "Click the button below to continue shopping"
TextCaptcha ==
    <<"C","l","i","c","k"," ","t","h","e"," ","b","u","t","t","o","n"," ",
      "b","e","l","o","w"," ","t","o"," ","c","o","n","t","i","n","u","e",
      " ","s","h","o","p","p","i","n","g">>

\* the rendered texts the model draws page content from
Texts == {<<>>, TextInStock, TextUnavailable, TextOutUpper, TextNoOffers,
          TextCaptcha}

-----------------------------------------------------------------------------
(* The rendered page as the selectors of checker.py see it                 *)

\* page.inner_text("body") / element.inner_text(): a text, or the call raises
TextReads ==
    {[raises |-> TRUE, text |-> <<>>]} \cup
    {[raises |-> FALSE, text |-> t] : t \in Texts}

\* page.query_selector("#availability") and the element's inner_text()
AvailReads ==
    {[present |-> FALSE, raises |-> FALSE, text |-> <<>>],
     [present |-> FALSE, raises |-> TRUE, text |-> <<>>]} \cup
    {[present |-> TRUE, raises |-> FALSE, text |-> t] : t \in Texts}

\* every page _detect_stock is tried on
DetectDoms ==
    [add_to_cart : BOOLEAN, add_to_cart_ubb : BOOLEAN, buy_now : BOOLEAN,
     unqualified : BOOLEAN, query_raises : BOOLEAN,
     avail : AvailReads, body : TextReads]

\* `signal in text` for some signal of OUT_OF_STOCK_SIGNALS
\* (checker.py:213-215 and 222-224; text is already lower-cased)
HasOutOfStockSignal(text) ==
    \E k \in 1..Len(OUT_OF_STOCK_SIGNALS) :
        Contains(text, OUT_OF_STOCK_SIGNALS[k])

\* faulty variant: the unqualified buy box is looked at before the buttons
detect_stock_BuyBoxFirst(dom) ==
    IF dom.query_raises THEN "raise"
    ELSE IF dom.unqualified THEN "False"
    ELSE IF dom.add_to_cart \/ dom.add_to_cart_ubb \/ dom.buy_now THEN "True"
    ELSE None

\* checker.py _detect_stock: "True", "False" or None; "raise" when a
\* query_selector for the buttons (lines 195-199, outside the try blocks)
\* raises
detect_stock(dom) ==
    IF dom.query_raises THEN "raise"
    ELSE IF dom.add_to_cart \/ dom.add_to_cart_ubb \/ dom.buy_now THEN "True"
    ELSE IF dom.unqualified THEN "False"
    ELSE IF /\ dom.avail.present
            /\ ~dom.avail.raises
            /\ HasOutOfStockSignal(Lower(dom.avail.text)) THEN "False"
    ELSE IF /\ ~dom.body.raises
            /\ HasOutOfStockSignal(Lower(dom.body.text)) THEN "False"
    ELSE None

-----------------------------------------------------------------------------
(* captcha_solvers: the two solvers and the registry                       *)

\* the page as one solve_if_captcha call finds it
CaptchaViews ==
    [form : BOOLEAN, body : TextReads, button_text : BOOLEAN,
     button_submit : BOOLEAN, click_raises : BOOLEAN]

SoftCaptchaSolver_detect(view) ==
    IF view.form THEN TRUE
    ELSE IF view.body.raises THEN FALSE
    ELSE Contains(Lower(view.body.text), CAPTCHA_PHRASE)

SoftCaptchaSolver_solve(view) ==
    IF view.button_text \/ view.button_submit
    THEN ~view.click_raises
    ELSE FALSE

ImageCaptchaSolver_detect(view) == FALSE

ImageCaptchaSolver_solve(view) == FALSE

SOLVERS == <<"SoftCaptchaSolver", "ImageCaptchaSolver">>

solver_detect(solver, view) ==
    IF solver = "SoftCaptchaSolver" THEN SoftCaptchaSolver_detect(view)
    ELSE ImageCaptchaSolver_detect(view)

solver_solve(solver, view) ==
    IF solver = "SoftCaptchaSolver" THEN SoftCaptchaSolver_solve(view)
    ELSE ImageCaptchaSolver_solve(view)

\* the solvers whose detect() answers True for the page
Detecting(view) == {k \in 1..Len(SOLVERS) : solver_detect(SOLVERS[k], view)}

\* the first of them in registry order
FirstDetecting(view) ==
    CHOOSE k \in Detecting(view) : \A j \in Detecting(view) : k <= j

\* faulty variant: the registry answers whether a CAPTCHA was detected
solve_if_captcha_Detected(view) == Detecting(view) # {}

\* captcha_solvers solve_if_captcha: the solve() result of the first solver
\* that detects, False when none does
solve_if_captcha(view) ==
    IF Detecting(view) = {} THEN FALSE
    ELSE solver_solve(SOLVERS[FirstDetecting(view)], view)

\* faulty variant: every solver is asked to detect before one solves
RECURSIVE solver_calls_DetectAll(_, _)
solver_calls_DetectAll(k, view) ==
    IF k > Len(SOLVERS)
    THEN IF Detecting(view) = {} THEN <<>>
         ELSE << <<SOLVERS[FirstDetecting(view)], "solve">> >>
    ELSE << <<SOLVERS[k], "detect">> >> \o solver_calls_DetectAll(k + 1, view)

\* the loop of solve_if_captcha from the k-th solver on
\* (captcha_solvers/__init__.py:126-129): the detect and solve calls it
\* makes, in order
RECURSIVE solver_calls(_, _)
solver_calls(k, view) ==
    IF k > Len(SOLVERS) THEN <<>>
    ELSE IF solver_detect(SOLVERS[k], view)
    THEN << <<SOLVERS[k], "detect">>, <<SOLVERS[k], "solve">> >>
    ELSE << <<SOLVERS[k], "detect">> >> \o solver_calls(k + 1, view)

\* one solve_if_captcha call as an observer sees it
SolverCall(view) ==
    [calls    |-> solver_calls(1, view),
     detected |-> Detecting(view) # {},
     solved   |-> /\ Detecting(view) # {}
                  /\ solver_solve(SOLVERS[FirstDetecting(view)], view),
     returned |-> solve_if_captcha(view)]

-----------------------------------------------------------------------------
(* checker.py: check_product and _handle_captcha                           *)

\* "Timeout 30000ms exceeded."
TimeoutChars ==
    <<"T","i","m","e","o","u","t"," ","3","0","0","0","0","m","s"," ","e",
      "x","c","e","e","d","e","d",".">>

\* "net::ERR_CONNECTION_RESET"
ResetChars ==
    <<"n","e","t",":",":","E","R","R","_","C","O","N","N","E","C","T","I",
      "O","N","_","R","E","S","E","T">>

\* "timeout"
TimeoutWord ==
    <<"t","i","m","e","o","u","t">>

\* the exceptions Playwright raises in the model: str(e) and its characters
TimeoutError == [str |-> "Timeout 30000ms exceeded.", chars |-> TimeoutChars]

ResetError == [str |-> "net::ERR_CONNECTION_RESET", chars |-> ResetChars]

NoException == [str |-> None, chars |-> <<>>]

\* an exception constructed without a message
EmptyError == [str |-> "", chars |-> <<>>]

\* "Navigation TIMEOUT": the word in upper case
UpperTimeoutError ==
    [str |-> "Navigation TIMEOUT",
     chars |->
         <<"N","a","v","i","g","a","t","i","o","n"," ","T","I","M","E","O",
           "U","T">>]

Exceptions == {TimeoutError, ResetError, UpperTimeoutError, EmptyError}

\* checker.py:103-104
error_message(exc) ==
    IF Contains(Lower(exc.chars), TimeoutWord) THEN "Page load timeout"
    ELSE exc.str

StatusCodes == {200, 503, 404, 500}

\* page.goto(url): raises, produces no response, or a response with a status
GotoOutcomes ==
    {[kind |-> "raise", status |-> 0, exc |-> x] : x \in Exceptions} \cup
    {[kind |-> "none", status |-> 0, exc |-> NoException]} \cup
    {[kind |-> "resp", status |-> c, exc |-> NoException] : c \in StatusCodes}

\* the re-navigations of _handle_captcha: they raise or they do not
ReGotoOutcomes == {NoException, TimeoutError}

\* f"HTTP {resp.status}"
http_error(status) == "HTTP " \o ToString(status)

ERR_RATE_LIMITED == "CAPTCHA / rate limited (503)"

ERR_PERSISTENT == "Persistent CAPTCHA after 3 solve attempts"

ERR_UNDETERMINED ==
    "Could not determine stock status (page structure may have changed)"

\* checker.py _handle_captcha on the pages e.views[1..3] as the successive
\* solve_if_captcha calls find them.  ret: the return value; error: what it
\* stores in result.error; raised: the exception of a re-navigation that
\* escapes; calls, navs, captures: the solver calls, page.goto calls and
\* capture_debug calls it made
handle_captcha(e) ==
    LET c1 == SolverCall(e.views[1])
        c2 == SolverCall(e.views[2])
        c3 == SolverCall(e.views[3])
        out(ret, err, exc, calls, navs, caps) ==
            [ret |-> ret, error |-> err, raised |-> exc, calls |-> calls,
             navs |-> navs, captures |-> caps]
    IN  IF ~c1.returned
        THEN out(FALSE, None, NoException, <<c1>>, 0, 0)
        ELSE IF e.regoto[1] # NoException
        THEN out(FALSE, None, e.regoto[1], <<c1>>, 1, 0)
        ELSE IF ~c2.returned
        THEN out(TRUE, None, NoException, <<c1, c2>>, 1, 0)
        ELSE IF e.regoto[2] # NoException
        THEN out(FALSE, None, e.regoto[2], <<c1, c2>>, 2, 0)
        ELSE IF ~c3.returned
        THEN out(TRUE, None, NoException, <<c1, c2, c3>>, 2, 0)
        ELSE out(TRUE, ERR_PERSISTENT, NoException, <<c1, c2, c3>>, 2, 1)

\* the exception raised by a query_selector of _detect_stock
DomException == ResetError

\* str.strip() for the blanks of the model's texts
RECURSIVE LStrip(_)
LStrip(text) ==
    IF text # <<>> /\ Head(text) = " " THEN LStrip(Tail(text)) ELSE text

RECURSIVE RStrip(_)
RStrip(text) ==
    IF text # <<>> /\ text[Len(text)] = " "
    THEN RStrip(SubSeq(text, 1, Len(text) - 1))
    ELSE text

Strip(text) == RStrip(LStrip(text))

\* an element found with its inner text; a query or inner_text() that raises
ElemRead(t) == [present |-> TRUE, raises |-> FALSE, text |-> t]

ElemRaises == [present |-> FALSE, raises |-> TRUE, text |-> <<>>]

\* checker.py _extract_title: <<>> is None, <<t>> is the text t
extract_title(m) ==
    IF m.title.raises \/ ~m.title.present THEN <<>>
    ELSE <<Strip(m.title.text)>>

\* checker.py _extract_price
extract_price(m) ==
    IF m.price_whole.raises \/ ~m.price_whole.present THEN <<>>
    ELSE IF m.price_fraction.raises THEN <<>>
    ELSE <<  <<"$">> \o Strip(m.price_whole.text)
             \o (IF m.price_fraction.present
                 THEN Strip(m.price_fraction.text) ELSE <<>>)  >>

\* checker.py _extract_sold_by
extract_sold_by(m) ==
    IF m.merchant.raises THEN <<>>
    ELSE IF m.merchant.present THEN <<Strip(m.merchant.text)>>
    ELSE IF m.tabular.raises \/ ~m.tabular.present THEN <<>>
    ELSE <<Strip(m.tabular.text)>>

\* debug.py capture: whatever fails while the files are written is logged
\* only; `escaped` is the exception that leaves the call
capture_debug(e) ==
    [files |-> IF e.capture_raises THEN 0 ELSE 2, escaped |-> NoException]

\* faulty variant: only 503 is stopped at the gate
status_gate_Only503(g) ==
    IF g.kind = "resp" /\ g.status = 503 THEN ERR_RATE_LIMITED ELSE None

\* faulty variant: a navigation without a response object ends the check
status_gate_NoneIsError(g) ==
    IF g.kind = "resp" /\ g.status = 503 THEN ERR_RATE_LIMITED
    ELSE IF g.kind = "resp" /\ g.status # 200 THEN http_error(g.status)
    ELSE IF g.kind = "none" THEN "HTTP None"
    ELSE None

\* the response-status gate of check_product (checker.py:68-75): the error
\* the check ends with, None when the response passes
status_gate(g) ==
    IF g.kind = "resp" /\ g.status = 503 THEN ERR_RATE_LIMITED
    ELSE IF g.kind = "resp" /\ g.status # 200 THEN http_error(g.status)
    ELSE None

\* the CheckResult of checker.py:63
NewCheckResult(asin) ==
    [asin |-> asin, error |-> None, in_stock |-> None, title |-> <<>>,
     price |-> <<>>, sold_by |-> <<>>]

\* the try block of check_product (checker.py:66-100).  result: the
\* CheckResult as the block leaves it; raised: the exception that leaves
\* the block; trace: the calls it made (solve_if_captcha calls, page.goto
\* calls, whether the page was parsed, what _detect_stock answered,
\* capture_debug calls)
check_body(asin, e) ==
    LET g == e.goto
        h == handle_captcha(e)
        d == detect_stock(e.dom)
        r0 == NewCheckResult(asin)
        parsed == [r0 EXCEPT !.title = extract_title(e.meta),
                             !.price = extract_price(e.meta),
                             !.sold_by = extract_sold_by(e.meta)]
        out(r, exc, calls, navs, isParsed, det, caps) ==
            [result |-> r,
             raised |-> IF exc = NoException /\ caps > 0
                        THEN capture_debug(e).escaped ELSE exc,
             trace  |-> [calls |-> calls, navs |-> navs,
                         parsed |-> isParsed, detected |-> det,
                         captures |-> caps]]
    IN  IF g.kind = "raise"
        THEN out(r0, g.exc, <<>>, 1, FALSE, "not run", 0)
        ELSE IF status_gate(g) # None
        THEN out([r0 EXCEPT !.error = status_gate(g)], NoException,
                 <<>>, 1, FALSE, "not run", 1)
        ELSE IF h.raised # NoException
        THEN out(r0, h.raised, h.calls, 1 + h.navs, FALSE, "not run", 0)
        ELSE IF h.ret /\ h.error # None
        THEN out([r0 EXCEPT !.error = h.error], NoException, h.calls,
                 1 + h.navs, FALSE, "not run", h.captures)
        ELSE IF d = "raise"
        THEN out(parsed, DomException, h.calls, 1 + h.navs, TRUE, d, 0)
        ELSE IF d = None
        THEN out([parsed EXCEPT !.error = ERR_UNDETERMINED], NoException,
                 h.calls, 1 + h.navs, TRUE, d, 1)
        ELSE out([parsed EXCEPT !.in_stock = d], NoException, h.calls,
                 1 + h.navs, TRUE, d, 0)

\* faulty variant: no except clause around the body
without_except(b) ==
    [result |-> b.result,
     trace  |-> [calls |-> b.trace.calls, navs |-> b.trace.navs,
                 parsed |-> b.trace.parsed,
                 detected |-> b.trace.detected,
                 captures |-> b.trace.captures,
                 escaped |-> b.raised # NoException]]

check_product_NoCatch(asin, e) == without_except(check_body(asin, e))

\* faulty variant: the except clause stores no error
except_clause_NoError(b) ==
    [result |-> b.result,
     trace  |-> [calls |-> b.trace.calls, navs |-> b.trace.navs,
                 parsed |-> b.trace.parsed,
                 detected |-> b.trace.detected,
                 captures |-> b.trace.captures
                              + (IF b.raised # NoException THEN 1 ELSE 0),
                 escaped |-> FALSE]]

\* the except clause of check_product (checker.py:102-109) after the try
\* block ended as b: the exception becomes result.error and capture_debug
\* is called once more inside its own try
except_clause(b) ==
    [result |-> IF b.raised # NoException
                THEN [b.result EXCEPT !.error = error_message(b.raised)]
                ELSE b.result,
     trace  |-> [calls |-> b.trace.calls, navs |-> b.trace.navs,
                 parsed |-> b.trace.parsed,
                 detected |-> b.trace.detected,
                 captures |-> b.trace.captures
                              + (IF b.raised # NoException THEN 1 ELSE 0),
                 escaped |-> FALSE]]

\* checker.py check_product for `asin` on page environment e.
\* result: the CheckResult returned; trace: the calls the check made and
\* whether an exception left check_product
check_product(asin, e) == except_clause(check_body(asin, e))

-----------------------------------------------------------------------------
(* The page environments the checks are run on                             *)

ViewNoCaptcha ==
    [form |-> FALSE, body |-> [raises |-> FALSE, text |-> TextInStock],
     button_text |-> FALSE, button_submit |-> FALSE, click_raises |-> FALSE]

ViewSolvable ==
    [form |-> TRUE, body |-> [raises |-> FALSE, text |-> TextCaptcha],
     button_text |-> TRUE, button_submit |-> FALSE, click_raises |-> FALSE]

ViewNoButton ==
    [form |-> FALSE, body |-> [raises |-> FALSE, text |-> TextCaptcha],
     button_text |-> FALSE, button_submit |-> FALSE, click_raises |-> FALSE]

ViewClickFails ==
    [form |-> TRUE, body |-> [raises |-> TRUE, text |-> <<>>],
     button_text |-> FALSE, button_submit |-> TRUE, click_raises |-> TRUE]

CheckViews == {ViewNoCaptcha, ViewSolvable, ViewNoButton, ViewClickFails}

NoAvail == [present |-> FALSE, raises |-> FALSE, text |-> <<>>]

PlainBody == [raises |-> FALSE, text |-> TextInStock]

DomBlank ==
    [add_to_cart |-> FALSE, add_to_cart_ubb |-> FALSE, buy_now |-> FALSE,
     unqualified |-> FALSE, query_raises |-> FALSE,
     avail |-> NoAvail, body |-> PlainBody]

DomInStock == [DomBlank EXCEPT !.add_to_cart = TRUE]

DomBuyNowNoBuyBox == [DomBlank EXCEPT !.buy_now = TRUE, !.unqualified = TRUE]

DomNoBuyBox == [DomBlank EXCEPT !.unqualified = TRUE]

DomUnavailable ==
    [DomBlank EXCEPT !.avail = [present |-> TRUE, raises |-> FALSE,
                                text |-> TextUnavailable]]

DomBodyOut ==
    [DomBlank EXCEPT !.body = [raises |-> FALSE, text |-> TextOutUpper]]

DomCaptchaPage ==
    [DomBlank EXCEPT !.body = [raises |-> FALSE, text |-> TextCaptcha]]

DomBroken == [DomBlank EXCEPT !.query_raises = TRUE]

CheckDoms == {DomInStock, DomBuyNowNoBuyBox, DomNoBuyBox, DomUnavailable,
              DomBodyOut, DomCaptchaPage, DomBroken}

\* "Widget Pro"
TitleText ==
    <<"W","i","d","g","e","t"," ","P","r","o">>

\* "19."
PriceWholeText ==
    <<"1","9",".">>

\* "99"
PriceFractionText ==
    <<"9","9">>

\* "Sold by Amazon.ca"
MerchantText ==
    <<"S","o","l","d"," ","b","y"," ","A","m","a","z","o","n",".","c","a">>

\* "Ships from Amazon"
TabularText ==
    <<"S","h","i","p","s"," ","f","r","o","m"," ","A","m","a","z","o","n">>

\* a product page with every metadata element, each inner text with the
\* blanks the markup puts around it
MetaFull ==
    [title |-> ElemRead(<<" ", " ">> \o TitleText \o <<" ">>),
     price_whole |-> ElemRead(<<" ">> \o PriceWholeText \o <<" ">>),
     price_fraction |-> ElemRead(PriceFractionText \o <<" ">>),
     merchant |-> ElemRead(<<" ">> \o MerchantText \o <<" ">>),
     tabular |-> ElemRead(<<" ">> \o TabularText \o <<" ">>)]

\* a page with none of them
MetaNone ==
    [title |-> NoAvail, price_whole |-> NoAvail, price_fraction |-> NoAvail,
     merchant |-> NoAvail, tabular |-> NoAvail]

\* the newer buy box: no #merchant-info, no price fraction
MetaTabular ==
    [MetaFull EXCEPT !.price_fraction = NoAvail, !.merchant = NoAvail]

\* those three, a page whose every query raises, and one whose fraction
\* query raises after the whole part was found
Metas ==
    {MetaFull, MetaNone, MetaTabular,
     [title |-> ElemRaises, price_whole |-> ElemRaises,
      price_fraction |-> ElemRaises, merchant |-> ElemRaises,
      tabular |-> ElemRaises],
     [MetaFull EXCEPT !.price_fraction = ElemRaises]}

\* what one check_product call meets: the first navigation, the page at each
\* solve_if_captcha call, the re-navigations, the page that is parsed, its
\* metadata elements, and whether writing the Debug files fails
\* PageEnvs: every challenge case on a page with all its metadata, and
\* every metadata and Debug-capture case without or with a solved challenge
PageEnvs ==
    [goto : GotoOutcomes, views : [1..3 -> CheckViews],
     regoto : [1..2 -> ReGotoOutcomes], dom : CheckDoms,
     meta : {MetaFull}, capture_raises : {FALSE}]
    \cup
    [goto : GotoOutcomes,
     views : {[i \in 1..3 |-> ViewNoCaptcha], [i \in 1..3 |-> ViewSolvable]},
     regoto : {[i \in 1..2 |-> NoException]}, dom : CheckDoms,
     meta : Metas, capture_raises : BOOLEAN]

-----------------------------------------------------------------------------
(* notifiers/__init__.py: notify_all                                       *)

MaxNotifiers == 4

\* what a notifier's send_* method does when called: it returns True or
\* False, or it raises
SendOutcomes == {"True", "False", "raises"}

\* the lists of notifiers notify_all can be handed, each notifier given by
\* what its method does
NotifierLists == UNION {[1..n -> SendOutcomes] : n \in 0..MaxNotifiers}

\* index of the first notifier that raises, 0 when none does
RECURSIVE first_raising(_, _)
first_raising(senders, k) ==
    IF k > Len(senders) THEN 0
    ELSE IF senders[k] = "raises" THEN k
    ELSE first_raising(senders, k + 1)

\* faulty variant: no try around the call, the first exception leaves the loop
notify_all_StopAtFailure(senders) ==
    LET f == first_raising(senders, 1)
    IN  [invoked |-> [i \in 1..(IF f = 0 THEN Len(senders) ELSE f) |-> i],
         logged  |-> <<>>,
         escaped |-> f # 0]

\* the loop of notify_all from the k-th notifier on: the notifiers whose
\* method was called and those whose failure was logged, in order
RECURSIVE notify_from(_, _)
notify_from(senders, k) ==
    IF k > Len(senders) THEN [invoked |-> <<>>, logged |-> <<>>]
    ELSE LET rest == notify_from(senders, k + 1)
         IN  [invoked |-> <<k>> \o rest.invoked,
              logged  |-> IF senders[k] = "raises"
                          THEN <<k>> \o rest.logged ELSE rest.logged]

\* notifiers notify_all: escaped tells whether an exception left the call
notify_all(senders) ==
    [invoked |-> notify_from(senders, 1).invoked,
     logged  |-> notify_from(senders, 1).logged,
     escaped |-> FALSE]

-----------------------------------------------------------------------------
(* browser.py: BrowserManager.stop                                         *)

\* the teardown steps of stop(), in the order of the code: _page.close(),
\* _context.close(), _browser.close(), _playwright.stop()
STOP_STEPS == <<"page", "context", "browser", "playwright">>

\* an attribute of the BrowserManager: None, an open object, one that is
\* closed already (closing it again does nothing), one whose close raises
HandleStates == {"None", "open", "closed", "broken"}

\* the attribute values a BrowserManager can hold: start() sets _playwright,
\* _browser, _context, _page in this order, none is reset to None
BrowserHandles ==
    {h \in [{"page", "context", "browser", "playwright"} -> HandleStates] :
        /\ h["page"] # "None" => h["context"] # "None"
        /\ h["context"] # "None" => h["browser"] # "None"
        /\ h["browser"] # "None" => h["playwright"] # "None"}

\* the body of the try of stop() from the k-th step on: the steps whose
\* close was called and whether one of them raised
RECURSIVE stop_from(_, _)
stop_from(h, k) ==
    IF k > Len(STOP_STEPS) THEN [attempted |-> <<>>, raised |-> FALSE]
    ELSE IF h[STOP_STEPS[k]] = "None" THEN stop_from(h, k + 1)
    ELSE IF h[STOP_STEPS[k]] = "broken"
    THEN [attempted |-> <<STOP_STEPS[k]>>, raised |-> TRUE]
    ELSE LET rest == stop_from(h, k + 1)
         IN  [attempted |-> <<STOP_STEPS[k]>> \o rest.attempted,
              raised |-> rest.raised]

\* BrowserManager.stop: one try around the four steps, the exception logged
stop(h) ==
    [attempted |-> stop_from(h, 1).attempted,
     logged    |-> stop_from(h, 1).raised,
     escaped   |-> FALSE]

-----------------------------------------------------------------------------
(* browser.py: _create_context, warmup, rotate_context.  A step is the pair *)
(* of the call and the browser context it acts on: "old" is the context    *)
(* held when rotate_context is entered, "new" the one it creates           *)

\* the calls of warmup() that can raise
WarmupFailures ==
    {"none", "goto", "solve_if_captcha", "mouse.move", "mouse.wheel"}

\* what one rotate_context call meets
RotateEnvs ==
    [save_raises : BOOLEAN, page_close_raises : BOOLEAN,
     context_close_raises : BOOLEAN, new_context_raises : BOOLEAN,
     restore_raises : BOOLEAN, new_page_raises : BOOLEAN,
     warmup_raises : WarmupFailures]

\* BrowserManager._create_context: steps made, whether an exception leaves
create_context(e) ==
    IF e.new_context_raises
    THEN [steps |-> << <<"new_context", "new">> >>, raised |-> TRUE]
    ELSE [steps |-> << <<"new_context", "new">>,
                       <<"add_init_script", "new">>,
                       <<"cookies.restore", "new">>,
                       <<"new_page", "new">> >>,
          raised |-> e.new_page_raises]

\* the calls warmup makes on the page of context c, in order
warmup_calls(c) ==
    << <<"goto", c>>, <<"solve_if_captcha", c>>,
       <<"mouse.move", c>>, <<"mouse.wheel", c>> >>

\* faulty variant: the exception of a failed call leaves warmup
warmup_Reraises(e, c) ==
    LET last == CASE e.warmup_raises = "goto" -> 1
                  [] e.warmup_raises = "solve_if_captcha" -> 2
                  [] e.warmup_raises = "mouse.move" -> 3
                  [] OTHER -> 4
    IN  [steps |-> SubSeq(warmup_calls(c), 1, last),
         raised |-> e.warmup_raises # "none"]

\* BrowserManager.warmup on context c: the calls inside its try, up to the
\* one that raises; the exception is logged
warmup(e, c) ==
    LET all == warmup_calls(c)
        last == CASE e.warmup_raises = "goto" -> 1
                  [] e.warmup_raises = "solve_if_captcha" -> 2
                  [] e.warmup_raises = "mouse.move" -> 3
                  [] e.warmup_raises = "mouse.wheel" -> 4
                  [] OTHER -> 4
    IN  [steps |-> SubSeq(all, 1, last), raised |-> FALSE]

\* self.warmup() followed by self.save_session() (browser.py:126-127 and
\* 198-199, main.py:94-95): the session is saved if warmup returns
warm_and_save(e, c) ==
    [steps |-> warmup(e, c).steps
               \o (IF warmup(e, c).raised THEN <<>>
                   ELSE << <<"cookies.save", c>> >>),
     raised |-> warmup(e, c).raised]

\* BrowserManager.start: launch, first context, warmup, save; whether an
\* exception leaves it and the page it returns
start(e) ==
    LET c == create_context(e)
        escaped == c.raised \/ warm_and_save(e, "new").raised
    IN  [steps |-> << <<"launch", "browser">> >> \o c.steps
                   \o (IF c.raised THEN <<>> ELSE warm_and_save(e, "new").steps),
         escaped |-> escaped,
         page |-> IF escaped THEN "None" ELSE "new"]

\* the try of rotate_context around both closes (browser.py:188-192)
close_old(e) ==
    IF e.page_close_raises THEN << <<"page.close", "old">> >>
    ELSE << <<"page.close", "old">>, <<"context.close", "old">> >>

\* faulty variant: the new context is created and warmed up before the
\* cooldown sleep
rotate_context_SleepLast(e) ==
    LET c == create_context(e)
    IN  [steps |-> << <<"cookies.save", "old">> >> \o close_old(e)
                   \o c.steps
                   \o (IF c.raised THEN <<>> ELSE warm_and_save(e, "new").steps)
                   \o << <<"sleep", "cooldown">> >>,
         escaped |-> c.raised \/ warm_and_save(e, "new").raised]

\* BrowserManager.rotate_context: the steps it makes, in order, and whether
\* an exception leaves it
rotate_context(e) ==
    LET c == create_context(e)
    IN  [steps |-> << <<"cookies.save", "old">> >> \o close_old(e)
                   \o << <<"sleep", "cooldown">> >>
                   \o c.steps
                   \o (IF c.raised THEN <<>> ELSE warm_and_save(e, "new").steps),
         escaped |-> c.raised \/ warm_and_save(e, "new").raised]

\* whether an exception leaves rotate_context, over all it can meet
RotateEscapes == {rotate_context(e).escaped : e \in RotateEnvs}

-----------------------------------------------------------------------------
(* config.py: the products of the loaded configuration                     *)

\* Config.sorted_products: high priority first
PRODUCTS ==
    <<[asin |-> "B0HIGH", priority |-> "high"],
      [asin |-> "B0NORM", priority |-> "normal"]>>

ASINS == {PRODUCTS[i].asin : i \in 1..Len(PRODUCTS)}

\* Config.warmup_every_n_cycles when the file has no such key
DEFAULT_WARMUP_EVERY_N_CYCLES == 20

\* the keys Config.from_file requires (config.py:96)
REQUIRED_KEYS == {"telegram_bot_token", "telegram_chat_id", "products"}

\* a parsed config.json: the keys it has and their values
RawA ==
    [keys |-> REQUIRED_KEYS \cup {"warmup_every_n_cycles"},
     telegram_bot_token |-> "token-A", telegram_chat_id |-> "chat-A",
     products |-> <<PRODUCTS[2], PRODUCTS[1]>>, warmup_every_n_cycles |-> 2]

\* another bot token, one product only, no warmup key
RawB ==
    [keys |-> REQUIRED_KEYS,
     telegram_bot_token |-> "token-B", telegram_chat_id |-> "chat-A",
     products |-> <<PRODUCTS[2]>>, warmup_every_n_cycles |-> 0]

\* config.json on disk: does it exist, is it JSON, what it parses to
FileA == [exists |-> TRUE, json_valid |-> TRUE, raw |-> RawA]

FileB == [exists |-> TRUE, json_valid |-> TRUE, raw |-> RawB]

\* the two valid files, files with the warmup cadence 0 and -2, no file, a
\* file that is not JSON, and files without the chat id, with an empty
\* token, with an empty product list
ConfigFiles ==
    {FileA, FileB,
     [exists |-> TRUE, json_valid |-> TRUE,
      raw |-> [RawA EXCEPT !.warmup_every_n_cycles = 0]],
     [exists |-> TRUE, json_valid |-> TRUE,
      raw |-> [RawA EXCEPT !.warmup_every_n_cycles = -2]],
     [exists |-> FALSE, json_valid |-> FALSE, raw |-> RawA],
     [exists |-> TRUE, json_valid |-> FALSE, raw |-> RawA],
     [exists |-> TRUE, json_valid |-> TRUE,
      raw |-> [RawB EXCEPT !.keys = @ \ {"telegram_chat_id"}]],
     [exists |-> TRUE, json_valid |-> TRUE,
      raw |-> [RawB EXCEPT !.telegram_bot_token = ""]],
     [exists |-> TRUE, json_valid |-> TRUE,
      raw |-> [RawB EXCEPT !.products = <<>>]]}

\* `key not in raw or not raw[key]` (config.py:98)
key_missing(raw, key) ==
    \/ key \notin raw.keys
    \/ key = "telegram_bot_token" /\ raw.telegram_bot_token = ""
    \/ key = "telegram_chat_id" /\ raw.telegram_chat_id = ""
    \/ key = "products" /\ raw.products = <<>>

\* Product.from_dict and __post_init__ (config.py:36-54)
Product_from_dict(d) ==
    [asin |-> d.asin,
     priority |-> IF d.priority \in {"high", "normal"} THEN d.priority
                  ELSE "normal"]

\* the Config built at config.py:104-116
Config_of(raw) ==
    [telegram_bot_token |-> raw.telegram_bot_token,
     telegram_chat_id |-> raw.telegram_chat_id,
     warmup_every_n_cycles |->
         IF "warmup_every_n_cycles" \in raw.keys
         THEN raw.warmup_every_n_cycles
         ELSE DEFAULT_WARMUP_EVERY_N_CYCLES,
     products |-> [i \in 1..Len(raw.products) |->
                      Product_from_dict(raw.products[i])]]

\* Config.from_file: "ok" with the Config, "raise" when json.load raises,
\* "exit" when sys.exit(1) is called (SystemExit is not an Exception)
from_file(file) ==
    IF ~file.exists THEN [kind |-> "exit", config |-> Config_of(RawA)]
    ELSE IF ~file.json_valid
    THEN [kind |-> "raise", config |-> Config_of(RawA)]
    ELSE IF \E key \in REQUIRED_KEYS : key_missing(file.raw, key)
    THEN [kind |-> "exit", config |-> Config_of(RawA)]
    ELSE [kind |-> "ok", config |-> Config_of(file.raw)]

is_high_priority(p) == p.priority = "high"

\* Python's a % n for an a >= 0 and n # 0: the result has the sign of n
py_mod(a, n) ==
    IF n > 0 THEN a % n
    ELSE IF a % (-n) = 0 THEN 0
    ELSE (a % (-n)) + n

\* `cycle_count % config.warmup_every_n_cycles == 0` (main.py:93): "True",
\* "False", or the ZeroDivisionError of a cadence 0
cadence_test(cycle, n) ==
    IF n = 0 THEN "ZeroDivisionError"
    ELSE IF py_mod(cycle, n) = 0 THEN "True"
    ELSE "False"

\* Config.sorted_products: a stable sort, high priority first
sorted_products(c) ==
    SelectSeq(c.products, is_high_priority)
    \o SelectSeq(c.products, LAMBDA p : ~is_high_priority(p))

\* notifiers build_notifiers: the Telegram notifier of the credentials
build_notifiers(c) ==
    IF c.telegram_bot_token # "" /\ c.telegram_chat_id # ""
    THEN <<[kind |-> "TelegramNotifier", token |-> c.telegram_bot_token,
            chat_id |-> c.telegram_chat_id]>>
    ELSE <<>>

\* the fields of a CheckResult the poll loop branches on
Brief(r) == [asin |-> r.asin, error |-> r.error, in_stock |-> r.in_stock]

\* every CheckResult check_product can return for an ASIN
Outcomes ==
    [a \in ASINS |-> {Brief(check_product(a, e).result) : e \in PageEnvs}]

\* faulty variant: an outcome without availability passes as ok
ok_UnknownIsOk(r) == r.error = None \/ r.in_stock = None

\* CheckResult.ok
ok(r) == r.error = None

NoResult == [asin |-> None, error |-> None, in_stock |-> None]

-----------------------------------------------------------------------------
(* state.py: ProductState and StateManager                                 *)

TriState == {"True", "False", None}

\* ProductState()
NewProductState ==
    [in_stock |-> None, consecutive_errors |-> 0, priority |-> "normal",
     last_checked |-> <<>>, last_alert |-> <<>>]

EmptyDict == [a \in {} |-> NewProductState]

\* StateManager.get: the dict after the lazy creation of the record
get(d, asin) ==
    IF asin \in DOMAIN d THEN d ELSE d @@ (asin :> NewProductState)

\* faulty variant: a success keeps the error streak
record_success_KeepErrors(d, asin, in_stock, priority, now) ==
    [get(d, asin) EXCEPT ![asin] =
        [@ EXCEPT !.in_stock = in_stock, !.priority = priority,
                  !.last_checked = <<now>>]]

\* StateManager.record_success, before its save()
record_success(d, asin, in_stock, priority, now) ==
    [get(d, asin) EXCEPT ![asin] =
        [@ EXCEPT !.consecutive_errors = 0, !.in_stock = in_stock,
                  !.priority = priority, !.last_checked = <<now>>]]

\* faulty variant: an error marks the product out of stock
record_error_MarkOut(d, asin) ==
    [get(d, asin) EXCEPT ![asin] =
        [@ EXCEPT !.consecutive_errors = @ + 1, !.in_stock = "False"]]

\* StateManager.record_error, before its save()
record_error(d, asin) ==
    [get(d, asin) EXCEPT ![asin].consecutive_errors = @ + 1]

\* StateManager.record_alert, before its save()
record_alert(d, asin, now) ==
    [get(d, asin) EXCEPT ![asin].last_alert = <<now>>]

\* the state file: absent, or present with a readable dict or with bytes
\* json.load rejects
NoFile == [exists |-> FALSE, readable |-> FALSE, content |-> EmptyDict]

CorruptFile == [exists |-> TRUE, readable |-> FALSE, content |-> EmptyDict]

GoodFile(d) == [exists |-> TRUE, readable |-> TRUE, content |-> d]

\* how one save() ends: written; open() raises (the file is untouched);
\* open() truncated the file and json.dump raises
SaveOutcomes == {"ok", "open_raises", "dump_raises"}

\* StateManager.save: the file afterwards (every exception is logged only)
save(d, file, outcome) ==
    CASE outcome = "ok" -> GoodFile(d)
      [] outcome = "open_raises" -> file
      [] OTHER -> CorruptFile

\* StateManager._load: the dict of a new StateManager
load(file) ==
    IF file.exists /\ file.readable THEN file.content ELSE EmptyDict

-----------------------------------------------------------------------------
(* main.py: the decisions of the poll loop                                 *)

\* faulty variant: alert whenever the product is in stock
should_alert_Always(in_stock, prev) == in_stock = "True"

\* main.py:131-135: `if result.in_stock:` and `if prev_in_stock is not True:`
should_alert(in_stock, prev) == in_stock = "True" /\ prev # "True"

\* faulty variant: rotate at every error from the third on
should_rotate_FromThird(count) == count >= 3

\* main.py:122
should_rotate(count) == count >= 3 /\ count % 3 = 0

\* faulty variant: notify at every fifth error
should_notify_error_EveryFifth(count) == count >= 5 /\ count % 5 = 0

\* main.py:115
should_notify_error(count) == count = 5

-----------------------------------------------------------------------------
(* The state after construction (main.py:60-77)                            *)

\* a ProductState as an earlier run left it in the state file
StoredState(in_stock, errors) ==
    [in_stock |-> in_stock, consecutive_errors |-> errors,
     priority |-> "normal",
     last_checked |-> IF in_stock = None THEN <<>> ELSE <<0>>,
     last_alert |-> IF in_stock = "True" THEN <<0>> ELSE <<>>]

\* the state files the process may find when it starts
InitFiles ==
    {NoFile} \cup
    {GoodFile([a \in ASINS |-> StoredState(s, n)]) :
        s \in TriState, n \in 0..MaxStoredErrors}

\* the availability of every ASIN in a dict (None when it has no record)
Availability(d) ==
    [a \in ASINS |-> IF a \in DOMAIN d THEN d[a].in_stock ELSE None]

\* no state file, and a state file from which every branch of the loop is
\* met in the first
\* cycle: one more error rotates for the first product and sends the error
\* notification for the second
SmallFiles ==
    {NoFile,
     GoodFile([a \in ASINS |->
                  IF a = PRODUCTS[1].asin THEN StoredState("False", 2)
                  ELSE StoredState("True", 4)])}

\* main.py:60-77 with the state file being one of `files`
InitFrom(files) ==
    /\ cycle_count = 0
    /\ idx = 0
    /\ disk \in files
    /\ data = load(disk)
    /\ result = NoResult
    /\ prev_in_stock = None
    /\ error_count = 0
    /\ events = {}
    /\ written = [recorded |-> Availability(load(disk)),
                  flushed |-> Availability(load(disk))]
    /\ restarts = 0
    /\ config_file = FileA
    /\ config = from_file(config_file).config
    /\ products = sorted_products(config)
    /\ notifiers = build_notifiers(config)
    /\ checked = <<>>
    /\ interrupted = FALSE
    /\ stop_calls = 0
    /\ page_id = 1
    /\ used_pages = <<>>
    /\ rotations = 0

InitMain == InitFrom(InitFiles)

InitSmall ==
    /\ InitFrom(SmallFiles)
    /\ pc = "cycle"
    /\ env = None
    /\ probe = None

Init ==
    /\ InitMain
    /\ pc = "cycle"
    /\ env = None
    /\ probe = None

-----------------------------------------------------------------------------
(* main.py: one action per step of the poll loop                           *)

product == products[idx]

\* datetime.now(): the clock of the model ticks once per cycle
now == cycle_count

\* the ghost record of what record_success stored and what reached the file
Written(w, d, asin, in_stock, outcome) ==
    [recorded |-> [w.recorded EXCEPT ![asin] = in_stock],
     flushed  |-> IF outcome = "ok" THEN Availability(d)
                  ELSE w.flushed]

Flushed(w, d, outcome) ==
    [w EXCEPT !.flushed = IF outcome = "ok" THEN Availability(d) ELSE @]

\* main.py:80-97: the top of a cycle.  The configuration is read again:
\* an Exception of from_file is logged and the locals keep their values,
\* its SystemExit leaves the loop through the finally block.  Then the
\* cadence test: the periodic warmup and the cookie save run when it is
\* true, and its ZeroDivisionError leaves the loop through the finally block
CycleTop ==
    /\ pc = "cycle"
    /\ cycle_count < MaxCycles
    /\ cycle_count' = cycle_count + 1
    /\ LET r == from_file(config_file)
       IN  /\ IF r.kind = "ok"
              THEN /\ config' = r.config
                   /\ products' = sorted_products(r.config)
                   /\ notifiers' = build_notifiers(r.config)
              ELSE UNCHANGED <<config, products, notifiers>>
           /\ IF r.kind = "exit"
              THEN pc' = "finally" /\ idx' = idx /\ events' = events
              ELSE LET t == cadence_test(cycle_count',
                                         config'.warmup_every_n_cycles)
                   IN  /\ IF t = "ZeroDivisionError"
                          THEN pc' = "finally" /\ idx' = idx
                          ELSE pc' = "check" /\ idx' = 1
                       /\ events' = IF t = "True"
                                    THEN {"warmup", "save_session"}
                                    ELSE events
    /\ checked' = <<>>
    /\ used_pages' = <<>>
    /\ rotations' = 0
    /\ UNCHANGED <<data, disk, result, prev_in_stock, error_count,
                   written, restarts, env, probe, config_file, interrupted,
                   stop_calls, page_id>>

\* main.py:100-108: check_product, then state.get and prev.in_stock
Check ==
    /\ pc = "check"
    /\ \E r \in Outcomes[product.asin] : result' = r
    /\ data' = get(data, product.asin)
    /\ prev_in_stock' = data'[product.asin].in_stock
    /\ events' = {}
    /\ checked' = Append(checked, product.asin)
    /\ used_pages' = Append(used_pages, page_id)
    /\ pc' = "record"
    /\ UNCHANGED <<cycle_count, idx, disk, error_count, written, restarts,
                   env, probe, cfg_vars, interrupted, stop_calls,
                   page_id, rotations>>

\* the pages met by the checks of the poll loop when they are observed:
\* no challenge, the status gate passed or not, every parsed page
LoopEnvs ==
    [goto : {[kind |-> "none", status |-> 0, exc |-> NoException],
             [kind |-> "resp", status |-> 200, exc |-> NoException],
             [kind |-> "resp", status |-> 503, exc |-> NoException]},
     views : {[i \in 1..3 |-> ViewNoCaptcha]},
     regoto : {[i \in 1..2 |-> NoException]}, dom : CheckDoms,
     meta : {MetaFull, MetaNone, MetaTabular}, capture_raises : BOOLEAN]

\* main.py:100-108 with the page of the check kept in view: env is what
\* check_product met, probe what it did and returned
CheckObserved ==
    /\ pc = "check"
    /\ \E e \in LoopEnvs :
        /\ env' = e
        /\ probe' = check_product(product.asin, e)
        /\ result' = Brief(probe'.result)
    /\ data' = get(data, product.asin)
    /\ prev_in_stock' = data'[product.asin].in_stock
    /\ events' = {}
    /\ checked' = Append(checked, product.asin)
    /\ used_pages' = Append(used_pages, page_id)
    /\ pc' = "record"
    /\ UNCHANGED <<cycle_count, idx, disk, error_count, written, restarts,
                   cfg_vars, interrupted, stop_calls,
                   page_id, rotations>>

\* main.py:110-113: the error path records the error
RecordError ==
    /\ pc = "record"
    /\ ~ok(result)
    /\ data' = record_error(data, product.asin)
    /\ error_count' = data'[product.asin].consecutive_errors
    /\ \E o \in SaveOutcomes :
        /\ disk' = save(data', disk, o)
        /\ written' = Flushed(written, data', o)
    /\ pc' = IF should_notify_error(error_count') THEN "notify_error"
             ELSE IF should_rotate(error_count') THEN "rotate"
             ELSE "pause"
    /\ UNCHANGED <<cycle_count, idx, result, prev_in_stock, events,
                   restarts, env, probe, cfg_vars, exit_vars, session_vars>>

\* main.py:115-119
NotifyError ==
    /\ pc = "notify_error"
    /\ events' = events \cup {"send_error"}
    /\ pc' = IF should_rotate(error_count) THEN "rotate" ELSE "pause"
    /\ UNCHANGED <<cycle_count, idx, data, disk, result, prev_in_stock,
                   error_count, written, restarts, env, probe,
                   cfg_vars, exit_vars, session_vars>>

\* faulty variant: the rotation leaves the old page in place
Rotate_KeepPage ==
    /\ pc = "rotate"
    /\ events' = events \cup {"rotate_context"}
    /\ \E escaped \in RotateEscapes :
        /\ pc' = IF escaped THEN "finally" ELSE "pause"
        /\ rotations' = IF escaped THEN rotations ELSE rotations + 1
    /\ UNCHANGED <<cycle_count, idx, data, disk, result, prev_in_stock,
                   error_count, written, restarts, env, probe,
                   cfg_vars, exit_vars, page_id, used_pages>>

\* main.py:122-123: rotate_context returns with a new context and page in
\* the BrowserManager, or _create_context raises and the exception leaves
\* main() through its finally block
Rotate ==
    /\ pc = "rotate"
    /\ events' = events \cup {"rotate_context"}
    /\ \E escaped \in RotateEscapes :
        /\ pc' = IF escaped THEN "finally" ELSE "pause"
        /\ page_id' = IF escaped THEN page_id ELSE page_id + 1
        /\ rotations' = IF escaped THEN rotations ELSE rotations + 1
    /\ UNCHANGED <<cycle_count, idx, data, disk, result, prev_in_stock,
                   error_count, written, restarts, env, probe,
                   cfg_vars, exit_vars, used_pages>>

\* main.py:126-135: the success path records the availability
RecordSuccess ==
    /\ pc = "record"
    /\ ok(result)
    /\ data' = record_success(data, product.asin, result.in_stock,
                              product.priority, now)
    /\ \E o \in SaveOutcomes :
        /\ disk' = save(data', disk, o)
        /\ written' = Written(written, data', product.asin,
                              result.in_stock, o)
    /\ pc' = IF should_alert(result.in_stock, prev_in_stock)
             THEN "notify_restock" ELSE "pause"
    /\ UNCHANGED <<cycle_count, idx, result, prev_in_stock, error_count,
                   events, restarts, env, probe, cfg_vars, exit_vars, session_vars>>

\* whether one of the notifiers called reports the message as sent
delivery(senders) ==
    IF \E i \in 1..Len(senders) : senders[i] = "True"
    THEN "delivered" ELSE "not delivered"

\* faulty variant: the alert is stamped only when a notifier delivered it
NotifyRestock_StampIfDelivered ==
    /\ pc = "notify_restock"
    /\ \E senders \in [1..Len(notifiers) -> SendOutcomes] :
        /\ events' = events \cup {"send_restock", delivery(senders)}
        /\ pc' = IF notify_all(senders).escaped THEN "finally"
                 ELSE IF delivery(senders) = "delivered" THEN "record_alert"
                 ELSE "pause"
    /\ UNCHANGED <<cycle_count, idx, data, disk, result, prev_in_stock,
                   error_count, written, restarts, env, probe,
                   cfg_vars, exit_vars, session_vars>>

\* main.py:136: notify_all(notifiers, "send_restock", ...), each notifier
\* sending, failing to send, or raising
NotifyRestock ==
    /\ pc = "notify_restock"
    /\ \E senders \in [1..Len(notifiers) -> SendOutcomes] :
        /\ events' = events \cup {"send_restock", delivery(senders)}
        /\ pc' = IF notify_all(senders).escaped THEN "finally"
                 ELSE "record_alert"
    /\ UNCHANGED <<cycle_count, idx, data, disk, result, prev_in_stock,
                   error_count, written, restarts, env, probe,
                   cfg_vars, exit_vars, session_vars>>

\* main.py:137
RecordAlert ==
    /\ pc = "record_alert"
    /\ data' = record_alert(data, product.asin, now)
    /\ \E o \in SaveOutcomes :
        /\ disk' = save(data', disk, o)
        /\ written' = Flushed(written, data', o)
    /\ pc' = "pause"
    /\ UNCHANGED <<cycle_count, idx, result, prev_in_stock, error_count,
                   events, restarts, env, probe, cfg_vars, exit_vars, session_vars>>

\* main.py:141-143: the pause after a product; the locals of the finished
\* iteration are dead from here on
Pause ==
    /\ pc = "pause"
    /\ result' = NoResult
    /\ prev_in_stock' = None
    /\ error_count' = 0
    /\ events' = {}
    /\ IF idx < Len(products)
       THEN idx' = idx + 1 /\ pc' = "check"
       ELSE idx' = 0 /\ pc' = "cycle_end"
    /\ env' = None
    /\ probe' = None
    /\ UNCHANGED <<cycle_count, data, disk, written, restarts, cfg_vars,
                   exit_vars, session_vars>>

\* main.py:145-151: save_session and the sleep before the next cycle
CycleEnd ==
    /\ pc = "cycle_end"
    /\ pc' = "cycle"
    /\ checked' = <<>>
    /\ used_pages' = <<>>
    /\ rotations' = 0
    /\ UNCHANGED <<cycle_count, idx, data, disk, result, prev_in_stock,
                   error_count, events, written, restarts, env, probe,
                   cfg_vars, interrupted, stop_calls, page_id>>

\* faulty variant: main() ends without calling browser.stop()
Finally_NoStop ==
    /\ pc = "finally"
    /\ pc' = "exited"
    /\ UNCHANGED <<cycle_count, idx, data, disk, result, prev_in_stock,
                   error_count, events, written, restarts, env, probe,
                   cfg_vars, exit_vars, session_vars>>

\* main.py:153-156: the finally block calls browser.stop() and main() ends
Finally ==
    /\ pc = "finally"
    /\ stop_calls' = stop_calls + 1
    /\ pc' = "exited"
    /\ UNCHANGED <<cycle_count, idx, data, disk, result, prev_in_stock,
                   error_count, events, written, restarts, env, probe,
                   cfg_vars, checked, interrupted, session_vars>>

\* the positions of main() inside its try block (main.py:79-151)
LoopPositions ==
    {"cycle", "check", "record", "notify_error", "rotate", "notify_restock",
     "record_alert", "pause", "cycle_end"}

\* a KeyboardInterrupt is delivered while main() is in its try block: no
\* except clause below main catches it (they catch Exception), main.py:153
\* does, and the finally block follows
Interrupt ==
    /\ pc \in LoopPositions
    /\ ~interrupted
    /\ interrupted' = TRUE
    /\ pc' = "finally"
    /\ UNCHANGED <<cycle_count, idx, data, disk, result, prev_in_stock,
                   error_count, events, written, restarts, env, probe,
                   cfg_vars, checked, stop_calls, session_vars>>

\* somebody rewrites or removes config.json; the file is only read at the
\* top of a cycle, so only its content at that moment matters
EditConfigFile ==
    /\ pc = "cycle"
    /\ \E f \in ConfigFiles \ {config_file} : config_file' = f
    /\ UNCHANGED <<pc, cycle_count, idx, data, disk, result, prev_in_stock,
                   error_count, events, written, restarts, env, probe,
                   config, products, notifiers, exit_vars, session_vars>>

\* the process is stopped at any point and started again: main.py:60-77
\* runs anew and StateManager._load reads the state file
Restart ==
    /\ pc \in LoopPositions \cup {"finally", "exited"}
    /\ from_file(config_file).kind = "ok"
    /\ restarts < MaxRestarts
    /\ restarts' = restarts + 1
    /\ data' = load(disk)
    /\ cycle_count' = 0
    /\ idx' = 0
    /\ result' = NoResult
    /\ prev_in_stock' = None
    /\ error_count' = 0
    /\ events' = {}
    /\ pc' = "cycle"
    /\ config' = from_file(config_file).config
    /\ products' = sorted_products(config')
    /\ notifiers' = build_notifiers(config')
    /\ checked' = <<>>
    /\ interrupted' = FALSE
    /\ stop_calls' = 0
    /\ page_id' = 1
    /\ used_pages' = <<>>
    /\ rotations' = 0
    /\ UNCHANGED <<disk, written, env, probe, config_file>>

Next ==
    \/ CycleTop
    \/ Check
    \/ RecordError
    \/ NotifyError
    \/ Rotate
    \/ RecordSuccess
    \/ NotifyRestock
    \/ RecordAlert
    \/ Pause
    \/ CycleEnd
    \/ Finally

Spec == Init /\ [][Next]_vars

NextRestart == Next \/ Restart

SpecRestart == Init /\ [][NextRestart]_vars

NextObserved ==
    \/ CycleTop
    \/ CheckObserved
    \/ RecordError
    \/ NotifyError
    \/ Rotate
    \/ RecordSuccess
    \/ NotifyRestock
    \/ RecordAlert
    \/ Pause
    \/ CycleEnd
    \/ Finally

\* the poll loop with the page of every check in view
SpecObserved == InitSmall /\ [][NextObserved]_vars

\* the poll loop while config.json is edited
SpecConfig == InitSmall /\ [][Next \/ EditConfigFile]_vars

\* the poll loop with a KeyboardInterrupt; the finally block of main() is
\* run by the interpreter whenever the try block is left
SpecInterrupt ==
    InitSmall /\ [][Next \/ Interrupt]_vars /\ WF_vars(Finally)

-----------------------------------------------------------------------------
(* Properties of the poll loop and of the durable state                    *)

\* consecutive_errors of an ASIN (0 while it has no record)
Errors(d, a) == IF a \in DOMAIN d THEN d[a].consecutive_errors ELSE 0

\* pc values at which record_success, record_error or record_alert has just
\* returned and nothing has touched the state since
AfterRecord == {"notify_error", "rotate", "notify_restock", "record_alert",
                "pause", "finally", "exited"}

\* C1: a restock notification is sent on a check iff the outcome is ok and
\* in stock and the availability stored for the ASIN just before the check
\* was recorded was not True (None or False); the notification is sent by
\* the notify step and by no other.
C1_RestockAlertIffTransition ==
    [][/\ pc = "record" =>
            ((pc' = "notify_restock") <=>
                /\ ok(result)
                /\ result.in_stock = "True"
                /\ Availability(data)[result.asin] # "True")
       /\ pc = "notify_restock" => "send_restock" \in events'
       /\ pc # "notify_restock" /\ "send_restock" \in events'
            => "send_restock" \in events]_vars

\* C1 witness: a False -> True check has sent its alert
C1_Witness ==
    /\ pc = "pause"
    /\ "send_restock" \in events
    /\ prev_in_stock = "False"
    /\ data[result.asin].in_stock = "True"

\* C2: after a restart, a check that finds in stock an item that was
\* recorded in stock (and whose record had reached the state file) sends no
\* restock notification.
C2_NoRealertAfterRestart ==
    [][(/\ pc = "record"
        /\ restarts > 0
        /\ ok(result)
        /\ result.in_stock = "True"
        /\ written.recorded[result.asin] = "True"
        /\ written.flushed[result.asin] = "True")
       => pc' # "notify_restock"]_vars

\* C3: consecutive_errors is 0 right after an ok outcome is recorded, grows
\* by exactly 1 when a non-ok outcome is recorded, is changed by no other
\* step of the loop, and is never negative.
C3_ErrorStreak ==
    [][\A a \in ASINS :
        /\ Errors(data', a) >= 0
        /\ (pc = "record" /\ a = result.asin /\ ok(result))
              => Errors(data', a) = 0
        /\ (pc = "record" /\ a = result.asin /\ ~ok(result))
              => Errors(data', a) = Errors(data, a) + 1
        /\ ~(pc = "record" /\ a = result.asin)
              => Errors(data', a) = Errors(data, a)]_vars

\* C3 witness: an ok outcome of the first product has reset the longest
\* stored streak, which the second product, not yet checked, still carries
C3_Witness ==
    /\ pc = "pause"
    /\ ok(result)
    /\ idx = 1
    /\ cycle_count = 1
    /\ Errors(data, PRODUCTS[1].asin) = 0
    /\ Errors(data, PRODUCTS[2].asin) = MaxStoredErrors

\* C4: when an iteration is over, rotate_context has been invoked in it iff
\* the outcome was not ok and the new consecutive_errors is 3, 6, 9, ...
C4_RotationIffMultipleOfThree ==
    pc \in {"pause", "finally", "exited"} =>
        (("rotate_context" \in events) <=>
            /\ ~ok(result)
            /\ \E k \in 1..Errors(data, result.asin) :
                  Errors(data, result.asin) = 3 * k)

\* C4 witness: the sixth consecutive error has rotated the context
C4_Witness ==
    /\ pc = "pause"
    /\ "rotate_context" \in events
    /\ Errors(data, result.asin) = 6

\* C5: when an iteration is over, the error notification has been sent in
\* it iff the outcome was not ok and brought consecutive_errors to exactly
\* 5 (so not at 6, 10, ...).
C5_ErrorNoticeIffFifth ==
    pc \in {"pause", "finally", "exited"} =>
        (("send_error" \in events) <=>
            (~ok(result) /\ Errors(data, result.asin) = 5))

\* C5 witness: the fifth consecutive error has sent the notification
C5_Witness ==
    /\ pc = "pause"
    /\ events = {"send_error"}
    /\ Errors(data, result.asin) = 5

\* C9: recording a non-ok outcome changes consecutive_errors of its ASIN
\* alone: availability, priority, last_checked and last_alert of that ASIN
\* and the records of the other ASINs are as before, and the rest of the
\* error path changes nothing.
C9_ErrorKeepsAvailability ==
    [][(pc \in {"record", "notify_error", "rotate"} /\ ~ok(result)) =>
        /\ DOMAIN data' = DOMAIN data
        /\ \A a \in DOMAIN data :
            /\ data'[a].in_stock = data[a].in_stock
            /\ data'[a].priority = data[a].priority
            /\ data'[a].last_checked = data[a].last_checked
            /\ data'[a].last_alert = data[a].last_alert
            /\ (a # result.asin \/ pc # "record") => data'[a] = data[a]]_vars

\* C9 witness: an undeterminable check of a product stored as in stock has
\* been recorded and the product is still stored as in stock
C9_Witness ==
    /\ pc = "pause"
    /\ result.error = ERR_UNDETERMINED
    /\ data[result.asin].in_stock = "True"
    /\ Errors(data, result.asin) = 2

\* C10: after every completed record_success, record_error and record_alert
\* the state file holds exactly the in-memory state.
C10_DiskEqualsMemory ==
    pc \in AfterRecord => disk = GoodFile(data)

-----------------------------------------------------------------------------
(* Properties of the way the poll loop is left                             *)

\* the ASINs of the item list, in list order
ItemList == [i \in 1..Len(products) |-> products[i].asin]

\* C12: in every cycle each item of the list is checked exactly once,
\* whatever happens to the other items: no failed check, not even one whose
\* rotation fails to create the new context, keeps the remaining items from
\* being checked or ends the poll loop.
C12_EveryItemCheckedOnce ==
    /\ pc \notin {"finally", "exited"}
    /\ pc = "cycle_end" => checked = ItemList

\* C13: at the top of every cycle config.json is read again; when that
\* fails (file missing, invalid JSON, a required key missing or empty) the
\* configuration, the item list and the notifiers in memory are kept and
\* the cycle goes on; a valid file replaces them.
C13_FailedReloadKeepsConfig ==
    [][(pc = "cycle" /\ pc' # "cycle") =>
          /\ pc' = "check"
          /\ IF config_file \in {FileA, FileB}
             THEN /\ config'.telegram_bot_token
                        = config_file.raw.telegram_bot_token
                  /\ Len(products') = Len(config_file.raw.products)
             ELSE UNCHANGED <<config, products, notifiers>>]_vars

\* C15: once a KeyboardInterrupt has been delivered to the poll loop no
\* item check is started any more, browser.stop() is called, and it has
\* been called exactly once when main() has ended.
C15_InterruptStopsOnce ==
    /\ [][interrupted => checked' = checked]_vars
    /\ [](interrupted => pc \in {"finally", "exited"})
    /\ [](pc = "exited" => stop_calls = 1)
    /\ [](stop_calls <= 1)
    /\ (interrupted ~> (pc = "exited" /\ stop_calls = 1))

\* interrupted after the first item of a cycle: the second is not checked
C15_Witness ==
    /\ interrupted
    /\ pc = "exited"
    /\ stop_calls = 1
    /\ Len(products) = 2
    /\ checked = <<products[1].asin>>

\* C19: when _detect_stock answers None the check still returns normally:
\* the outcome carries the "Could not determine stock status" error and
\* the title, price and seller that were extracted, capture_debug is called,
\* the outcome is not ok, and the poll loop records it as an error
\* (consecutive_errors + 1, availability untouched), not as a success.
C19_UnknownCountsAsError ==
    [][/\ (pc = "check" /\ pc' = "record"
           /\ probe'.trace.detected = None) =>
              /\ probe'.result.error = "Could not determine stock status (page structure may have changed)"
              /\ probe'.result.in_stock = None
              /\ env'.meta = MetaFull =>
                     /\ probe'.result.title = <<TitleText>>
                     /\ probe'.result.price
                            = << <<"$">> \o PriceWholeText \o PriceFractionText >>
                     /\ probe'.result.sold_by = <<MerchantText>>
              /\ env'.meta = MetaTabular =>
                     /\ probe'.result.title = <<TitleText>>
                     /\ probe'.result.price = << <<"$">> \o PriceWholeText >>
                     /\ probe'.result.sold_by = <<TabularText>>
              /\ env'.meta = MetaNone =>
                     /\ probe'.result.title = <<>>
                     /\ probe'.result.price = <<>>
                     /\ probe'.result.sold_by = <<>>
              /\ probe'.trace.captures = 1
              /\ ~probe'.trace.escaped
              /\ result'.error = probe'.result.error
              /\ ~ok(result')
       /\ (pc = "record" /\ probe.trace.detected = None) =>
              /\ Errors(data', product.asin)
                     = Errors(data, product.asin) + 1
              /\ data'[product.asin].in_stock
                     = data[product.asin].in_stock
              /\ pc' \in {"notify_error", "rotate", "pause"}]_vars

\* an undeterminable page with all its metadata was recorded as the third
\* error in a row of an item known to be out of stock
C19_Witness ==
    /\ pc = "rotate"
    /\ probe.trace.detected = None
    /\ env.meta = MetaFull
    /\ probe.result.title = <<TitleText>>
    /\ Errors(data, product.asin) = 3
    /\ data[product.asin].in_stock = "False"

-----------------------------------------------------------------------------
(* check_product, solve_if_captcha and _detect_stock on their own: the     *)
(* initial state draws the page and the action applies the function to it  *)

InitCheck ==
    /\ InitMain
    /\ disk = NoFile
    /\ pc = "check_product"
    /\ env \in PageEnvs
    /\ probe = None

\* one check_product call (checker.py:50-109)
CheckProduct ==
    /\ pc = "check_product"
    /\ probe' = check_product(PRODUCTS[1].asin, env)
    /\ pc' = "checked"
    /\ UNCHANGED <<cycle_count, idx, data, disk, result, prev_in_stock,
                   error_count, events, written, restarts, env,
                   cfg_vars, exit_vars, session_vars>>

SpecCheck == InitCheck /\ [][CheckProduct]_vars

\* what the except clause is expected to report for each exception
ExpectedError(exc) ==
    CASE exc = TimeoutError -> "Page load timeout"
      [] exc = UpperTimeoutError -> "Page load timeout"
      [] exc = ResetError -> "net::ERR_CONNECTION_RESET"
      [] exc = EmptyError -> ""

C18_StatusGate ==
    (pc = "checked" /\ env.goto.kind = "resp" /\ env.goto.status # 200) =>
        /\ env.goto.status = 503 =>
               probe.result.error = "CAPTCHA / rate limited (503)"
        /\ env.goto.status = 404 => probe.result.error = "HTTP 404"
        /\ env.goto.status = 500 => probe.result.error = "HTTP 500"
        /\ probe.trace.captures = 1
        /\ probe.result.in_stock = None
        /\ probe.result.title = <<>>
        /\ probe.result.price = <<>>
        /\ probe.result.sold_by = <<>>
        /\ probe.trace.calls = <<>>
        /\ probe.trace.navs = 1
        /\ ~probe.trace.parsed
        /\ probe.trace.detected = "not run"

\* a 404 on a page whose metadata and buy box are all there
C18_Witness ==
    /\ pc = "checked"
    /\ env.goto.kind = "resp"
    /\ env.goto.status = 404
    /\ env.meta = MetaFull
    /\ env.dom = DomInStock
    /\ probe.result.error = "HTTP 404"
    /\ probe.trace.captures = 1

InitDetect ==
    /\ InitMain
    /\ disk = NoFile
    /\ pc = "detect_stock"
    /\ env \in DetectDoms
    /\ probe = None

\* one _detect_stock call (checker.py:188-228)
DetectStock ==
    /\ pc = "detect_stock"
    /\ probe' = detect_stock(env)
    /\ pc' = "detected"
    /\ UNCHANGED <<cycle_count, idx, data, disk, result, prev_in_stock,
                   error_count, events, written, restarts, env,
                   cfg_vars, exit_vars, session_vars>>

SpecDetect == InitDetect /\ [][DetectStock]_vars

InitCaptcha ==
    /\ InitMain
    /\ disk = NoFile
    /\ pc = "solve_if_captcha"
    /\ env \in CaptchaViews
    /\ probe = None

\* one solve_if_captcha call (captcha_solvers/__init__.py:119-129)
SolveIfCaptcha ==
    /\ pc = "solve_if_captcha"
    /\ probe' = SolverCall(env)
    /\ pc' = "solved"
    /\ UNCHANGED <<cycle_count, idx, data, disk, result, prev_in_stock,
                   error_count, events, written, restarts, env,
                   cfg_vars, exit_vars, session_vars>>

SpecCaptcha == InitCaptcha /\ [][SolveIfCaptcha]_vars

\* C16: solve_if_captcha asks SoftCaptchaSolver first and ImageCaptchaSolver
\* second; the first solver whose detect answers true has solve called and
\* that result is returned, with no call on a later solver; when none
\* detects no solve is called and the result is false.  The detect of
\* ImageCaptchaSolver is always false.
C16_FixedOrderFirstDetects ==
    pc = "solved" =>
        /\ ~ImageCaptchaSolver_detect(env)
        /\ SoftCaptchaSolver_detect(env) =>
               /\ probe.calls = << <<"SoftCaptchaSolver", "detect">>,
                                   <<"SoftCaptchaSolver", "solve">> >>
               /\ probe.returned = SoftCaptchaSolver_solve(env)
        /\ ~SoftCaptchaSolver_detect(env) =>
               /\ probe.calls = << <<"SoftCaptchaSolver", "detect">>,
                                   <<"ImageCaptchaSolver", "detect">> >>
               /\ ~probe.returned

\* the interstitial is detected by its body text and clicked through
C16_Witness ==
    /\ pc = "solved"
    /\ ~env.form
    /\ SoftCaptchaSolver_detect(env)
    /\ probe.returned
    /\ Len(probe.calls) = 2

\* C6: one check makes at most 3 solve_if_captcha calls and at most 3
\* navigations, and when a CAPTCHA is detected at the third call the check
\* ends with the persistent-CAPTCHA error without parsing the page.
C6_ThirdDetectionIsTerminal ==
    pc = "checked" =>
        /\ Len(probe.trace.calls) <= 3
        /\ probe.trace.navs <= 3
        /\ (Len(probe.trace.calls) = 3 /\ probe.trace.calls[3].detected)
              => /\ probe.result.error = ERR_PERSISTENT
                 /\ ~probe.trace.parsed

\* C7 as stated: solve_if_captcha returns True iff some solver detected a
\* CAPTCHA, whether or not it was solved.
C7_ReturnsDetected ==
    pc = "solved" => probe.returned = probe.detected

\* C7 as amended: solve_if_captcha returns True iff some solver detected a
\* CAPTCHA (the form, or the phrase in the readable body text) and that
\* solver's solve succeeded (a button was found and clicked without an
\* exception); a CAPTCHA that is detected and not solved gives False.
C7_ReturnsDetectedAndSolved ==
    pc = "solved" =>
        LET present == \/ env.form
                       \/ ~env.body.raises /\ env.body.text = TextCaptcha
            clicked == /\ env.button_text \/ env.button_submit
                       /\ ~env.click_raises
        IN  /\ probe.detected = present
            /\ probe.returned = (present /\ clicked)

\* C7 witness: a CAPTCHA that is detected by its phrase and has no button
\* to click has given False
C7_Witness ==
    /\ pc = "solved"
    /\ ~env.form
    /\ probe.detected
    /\ ~probe.solved
    /\ ~probe.returned

\* the texts of the model that hold an out-of-stock phrase in some case
OutOfStockTexts == {TextUnavailable, TextOutUpper, TextNoOffers}

\* C8: with no query_selector failure, _detect_stock answers by strict
\* precedence: a purchase button gives True whatever else is on the page;
\* else the unqualified buy box gives False; else an out-of-stock phrase in
\* the availability element gives False; else one in the body text gives
\* False; else None.  An availability element or a body that cannot be
\* read counts as holding no phrase and nothing is raised.
C8_DetectPrecedence ==
    (pc = "detected" /\ ~env.query_raises) =>
        LET button == env.add_to_cart \/ env.add_to_cart_ubb \/ env.buy_now
            inAvail == /\ env.avail.present
                       /\ ~env.avail.raises
                       /\ env.avail.text \in OutOfStockTexts
            inBody == ~env.body.raises /\ env.body.text \in OutOfStockTexts
        IN  /\ probe \in TriState
            /\ button => probe = "True"
            /\ (~button /\ env.unqualified) => probe = "False"
            /\ (~button /\ ~env.unqualified /\ inAvail) => probe = "False"
            /\ (~button /\ ~env.unqualified /\ ~inAvail /\ inBody)
                  => probe = "False"
            /\ (~button /\ ~env.unqualified /\ ~inAvail /\ ~inBody)
                  => probe = None

\* C8 witness: a buy-now button together with the unqualified buy box
\* has given True
C8_Witness ==
    /\ pc = "detected"
    /\ env.buy_now
    /\ ~env.add_to_cart
    /\ env.unqualified
    /\ probe = "True"

-----------------------------------------------------------------------------
(* notify_all on its own                                                   *)

InitNotify ==
    /\ InitMain
    /\ disk = NoFile
    /\ pc = "notify_all"
    /\ env \in NotifierLists
    /\ probe = None

\* one notify_all call (notifiers/__init__.py:98-104)
NotifyAll ==
    /\ pc = "notify_all"
    /\ probe' = notify_all(env)
    /\ pc' = "notified"
    /\ UNCHANGED <<cycle_count, idx, data, disk, result, prev_in_stock,
                   error_count, events, written, restarts, env,
                   cfg_vars, exit_vars, session_vars>>

SpecNotify == InitNotify /\ [][NotifyAll]_vars

\* the positions of a list whose notifier raises, in order
RECURSIVE RaisingAt(_, _)
RaisingAt(senders, k) ==
    IF k > Len(senders) THEN <<>>
    ELSE (IF senders[k] = "raises" THEN <<k>> ELSE <<>>)
         \o RaisingAt(senders, k + 1)

\* C17: notify_all calls the method on every notifier of the list, in list
\* order; an exception raised by one of them is caught and logged and the
\* notifiers after it are still called; no exception leaves notify_all.
C17_EveryNotifierInvoked ==
    pc = "notified" =>
        /\ probe.invoked = [i \in 1..Len(env) |-> i]
        /\ probe.logged = RaisingAt(env, 1)
        /\ ~probe.escaped

\* the first notifier raises and two more follow it
C17_Witness ==
    /\ pc = "notified"
    /\ Len(env) = 3
    /\ env[1] = "raises"
    /\ env[3] = "raises"
    /\ probe.invoked = <<1, 2, 3>>
    /\ probe.logged = <<1, 3>>

-----------------------------------------------------------------------------
(* BrowserManager.stop on its own                                          *)

InitStop ==
    /\ InitMain
    /\ disk = NoFile
    /\ pc = "stop"
    /\ env \in BrowserHandles
    /\ probe = None

\* one stop() call (browser.py:130-142)
Stop ==
    /\ pc = "stop"
    /\ probe' = stop(env)
    /\ pc' = "stopped"
    /\ UNCHANGED <<cycle_count, idx, data, disk, result, prev_in_stock,
                   error_count, events, written, restarts, env,
                   cfg_vars, exit_vars, session_vars>>

SpecStop == InitStop /\ [][Stop]_vars

\* the steps of stop() whose object exists, in teardown order
RECURSIVE PresentSteps(_, _)
PresentSteps(h, k) ==
    IF k > Len(STOP_STEPS) THEN <<>>
    ELSE (IF h[STOP_STEPS[k]] # "None" THEN <<STOP_STEPS[k]>> ELSE <<>>)
         \o PresentSteps(h, k + 1)

\* C14: stop() attempts the close of the page, of the context, of the
\* browser and the stop of the Playwright runtime each on its own: every
\* step whose object exists is attempted even when an earlier step raised,
\* and no exception leaves stop().
C14_EveryStepAttempted ==
    pc = "stopped" =>
        /\ probe.attempted = PresentSteps(env, 1)
        /\ ~probe.escaped

-----------------------------------------------------------------------------
(* BrowserManager.rotate_context on its own                                *)

InitRotate ==
    /\ InitMain
    /\ disk = NoFile
    /\ pc = "rotate_context"
    /\ env \in RotateEnvs
    /\ probe = None

\* one rotate_context call (browser.py:180-200)
RotateContext ==
    /\ pc = "rotate_context"
    /\ probe' = rotate_context(env)
    /\ pc' = "rotated"
    /\ UNCHANGED <<cycle_count, idx, data, disk, result, prev_in_stock,
                   error_count, events, written, restarts, env,
                   cfg_vars, exit_vars, session_vars>>

\* one start call (browser.py:107-128)
Start ==
    /\ pc = "rotate_context"
    /\ probe' = start(env)
    /\ pc' = "started"
    /\ UNCHANGED <<cycle_count, idx, data, disk, result, prev_in_stock,
                   error_count, events, written, restarts, env,
                   cfg_vars, exit_vars, session_vars>>

\* the periodic warmup of the poll loop on the current context
\* (main.py:93-95); an exception would leave the loop
PeriodicWarmup ==
    /\ pc = "rotate_context"
    /\ probe' = warm_and_save(env, "old")
    /\ pc' = "warmed"
    /\ UNCHANGED <<cycle_count, idx, data, disk, result, prev_in_stock,
                   error_count, events, written, restarts, env,
                   cfg_vars, exit_vars, session_vars>>

SpecRotate == InitRotate /\ [][RotateContext \/ Start \/ PeriodicWarmup]_vars

\* the steps of a rotation in which nothing raises
RotationOrder ==
    << <<"cookies.save", "old">>, <<"page.close", "old">>,
       <<"context.close", "old">>, <<"sleep", "cooldown">>,
       <<"new_context", "new">>, <<"add_init_script", "new">>,
       <<"cookies.restore", "new">>, <<"new_page", "new">>,
       <<"goto", "new">>, <<"solve_if_captcha", "new">>,
       <<"mouse.move", "new">>, <<"mouse.wheel", "new">>,
       <<"cookies.save", "new">> >>

\* position of a step in RotationOrder
Rank(step) == CHOOSE k \in 1..Len(RotationOrder) : RotationOrder[k] = step

\* C20: rotate_context makes its steps in the order: save the cookies of
\* the old context, close the old page and context, cooldown sleep, create
\* the new context (restore the cookies, open the new page), warmup.  No
\* call on the new context comes before the cooldown sleep, and the cookies
\* of the old context are saved before it is closed.
C20_RotationOrder ==
    pc = "rotated" =>
        LET t == probe.steps
            n == Len(t)
        IN  /\ \A i \in 1..n : \E k \in 1..Len(RotationOrder) :
                   RotationOrder[k] = t[i]
            /\ \A i, j \in 1..n : i < j => Rank(t[i]) < Rank(t[j])
            /\ t[1] = <<"cookies.save", "old">>
            /\ \A i \in 1..n : t[i][2] = "new" =>
                   \E j \in 1..(i - 1) : t[j] = <<"sleep", "cooldown">>
            /\ \A i \in 1..n : t[i] = <<"context.close", "old">> =>
                   \E j \in 1..(i - 1) : t[j] = <<"cookies.save", "old">>
            /\ (/\ ~env.page_close_raises
                /\ ~env.new_context_raises
                /\ ~env.new_page_raises
                /\ env.warmup_raises = "none") => t = RotationOrder

\* a rotation in which nothing raises has run through
C20_Witness ==
    /\ pc = "rotated"
    /\ ~env.save_raises
    /\ ~env.page_close_raises
    /\ ~env.context_close_raises
    /\ ~env.new_context_raises
    /\ ~env.new_page_raises
    /\ env.warmup_raises = "none"
    /\ probe.steps = RotationOrder
    /\ ~probe.escaped

\* C21: in rotate_context each close is best-effort on its own: the close of
\* the old context is attempted also when the close of the old page raises,
\* no failure of a close leaves the method, and the cooldown sleep and the
\* creation of the new context follow in every case.
C21_EachCloseAttempted ==
    pc = "rotated" =>
        LET Made(step) == \E i \in 1..Len(probe.steps) : probe.steps[i] = step
        IN  /\ Made(<<"page.close", "old">>)
            /\ Made(<<"context.close", "old">>)
            /\ Made(<<"sleep", "cooldown">>)
            /\ Made(<<"new_context", "new">>)
            /\ (~env.new_context_raises /\ ~env.new_page_raises)
                  => ~probe.escaped

\* C22: warmup never raises: when the navigation to the homepage, the
\* captcha solver or a pointer move or scroll fails inside it, start still
\* returns a page, rotate_context still completes with the session saved,
\* and the periodic warmup of the poll loop raises nothing; one warmup
\* calls the captcha solver at most once.
C22_WarmupNeverRaises ==
    LET t == probe.steps
        created == ~env.new_context_raises /\ ~env.new_page_raises
        Solves == {i \in 1..Len(t) : t[i][1] = "solve_if_captcha"}
    IN  /\ pc = "started" =>
              /\ created => (~probe.escaped /\ probe.page = "new")
              /\ created => t[Len(t)] = <<"cookies.save", "new">>
              /\ Cardinality(Solves) <= 1
        /\ pc = "rotated" =>
              /\ created => ~probe.escaped
              /\ created => t[Len(t)] = <<"cookies.save", "new">>
              /\ Cardinality(Solves) <= 1
        /\ pc = "warmed" =>
              /\ ~probe.raised
              /\ t[Len(t)] = <<"cookies.save", "old">>
              /\ Cardinality(Solves) <= 1

\* the captcha solver has raised inside the warmup of start, which returned
\* the page after one solver call
C22_Witness ==
    /\ pc = "started"
    /\ env.warmup_raises = "solve_if_captcha"
    /\ ~env.new_context_raises
    /\ ~env.new_page_raises
    /\ ~probe.escaped
    /\ probe.page = "new"
    /\ Cardinality({i \in 1..Len(probe.steps) :
                       probe.steps[i][1] = "solve_if_captcha"}) = 1

-----------------------------------------------------------------------------
(* debug.py: the directory of debug files                                  *)

\* debug.py:18
MAX_DEBUG_FILES == 40

\* captures made in one run of the directory model
MaxCaptures == 2

\* ensure_debug_dir: while more than MAX_DEBUG_FILES files are there, the
\* least recently modified one is unlinked
RECURSIVE ensure_debug_dir(_)
ensure_debug_dir(files) ==
    IF Cardinality(files) <= MAX_DEBUG_FILES THEN files
    ELSE LET oldest == CHOOSE f \in files :
                           \A g \in files : f.mtime <= g.mtime
         IN  ensure_debug_dir(files \ {oldest})

\* debug.capture into directory d at d.now + dt seconds: the directory is
\* trimmed first, then the screenshot and the markup dump are written under
\* the names <timestamp>_<asin>.png and .html (a file of that name is
\* overwritten); a failure ends the capture and is logged
capture(d, asin, dt, outcome) ==
    LET at == d.now + dt
        Put(files, ext, t) ==
            {f \in files : f.name # [stamp |-> at, asin |-> asin, ext |-> ext]}
            \cup {[name |-> [stamp |-> at, asin |-> asin, ext |-> ext],
                   mtime |-> t]}
        trimmed == IF outcome = "mkdir raises" THEN d.files
                   ELSE ensure_debug_dir(d.files)
        shot == IF outcome \in {"mkdir raises", "screenshot raises"}
                THEN trimmed ELSE Put(trimmed, "png", d.tick + 1)
        dump == IF outcome \in {"ok", "write raises"}
                THEN Put(shot, "html", d.tick + 2) ELSE shot
    IN  [files |-> dump, tick |-> d.tick + 2, now |-> at,
         captures |-> d.captures + 1, before |-> d.files]

\* a debug directory holding the n files of earlier captures, written in
\* pairs, or none
InitDebug ==
    /\ InitMain
    /\ disk = NoFile
    /\ pc = "capture"
    /\ env = None
    /\ \E n \in {0, MAX_DEBUG_FILES - 1, MAX_DEBUG_FILES,
                 MAX_DEBUG_FILES + 1, MAX_DEBUG_FILES + 2} :
          probe = [files |-> {[name |-> [stamp |-> (i + 1) \div 2,
                                         asin |-> PRODUCTS[1].asin,
                                         ext |-> IF i % 2 = 1 THEN "png"
                                                 ELSE "html"],
                               mtime |-> i] : i \in 1..n},
                   tick |-> n, now |-> (n + 1) \div 2,
                   captures |-> 0, before |-> {}]

\* one call of debug.capture (debug.py:29-66)
Capture ==
    /\ pc = "capture"
    /\ probe.captures < MaxCaptures
    /\ \E a \in ASINS, dt \in {0, 1},
          outcome \in {"ok", "mkdir raises", "screenshot raises",
                       "content raises", "write raises"} :
          probe' = capture(probe, a, dt, outcome)
    /\ UNCHANGED <<pc, cycle_count, idx, data, disk, result, prev_in_stock,
                   error_count, events, written, restarts, env,
                   cfg_vars, exit_vars, session_vars>>

SpecDebug == InitDebug /\ [][Capture]_vars

\* C23: after every capture the debug directory holds at most
\* MAX_DEBUG_FILES files, and a file is deleted only if every file kept from
\* before the capture was modified later than it.
C23_DebugFilesCapped ==
    (pc = "capture" /\ probe.captures > 0) =>
        /\ Cardinality(probe.files) <= MAX_DEBUG_FILES
        /\ LET Names == {f.name : f \in probe.files}
               deleted == {f \in probe.before : f.name \notin Names}
           IN  \A f \in deleted : \A g \in probe.before \ deleted :
                   f.mtime < g.mtime

C29_NoResponsePassesGate ==
    (pc = "checked" /\ env.goto.kind = "none") =>
        /\ status_gate(env.goto) = None
        /\ probe.trace.calls # <<>>
        /\ probe = check_product(PRODUCTS[1].asin,
                      [env EXCEPT !.goto = [kind |-> "resp", status |-> 200,
                                            exc |-> NoException]])

\* a navigation without response on a page in stock: the captcha handling
\* and the stock detection have run and the item was found in stock
C29_Witness ==
    /\ pc = "checked"
    /\ env.goto.kind = "none"
    /\ env.dom = DomInStock
    /\ Len(probe.trace.calls) = 1
    /\ probe.trace.parsed
    /\ probe.trace.detected = "True"
    /\ probe.result.error = None
    /\ probe.result.in_stock = "True"

\* C26: every outcome of check_product without error carries a definite
\* availability, true or false; record_success is never called with the
\* unknown availability, and the stored availability of a product, once
\* true or false, never goes back to unknown.
C26_OkIsDefinite ==
    [][/\ (pc = "check" /\ result'.error = None)
              => result'.in_stock \in {"True", "False"}
       /\ (pc = "record" /\ ok(result))
              => /\ result.in_stock \in {"True", "False"}
                 /\ data'[result.asin].in_stock = result.in_stock
       /\ \A a \in DOMAIN data :
              data[a].in_stock \in {"True", "False"}
                  => /\ a \in DOMAIN data'
                     /\ data'[a].in_stock \in {"True", "False"}]_vars

\* a product never checked before was found out of stock, which is stored
\* after a failed check of the same product in the next cycle
C26_Witness ==
    /\ pc = "pause"
    /\ cycle_count = 2
    /\ ~ok(result)
    /\ result.in_stock = None
    /\ prev_in_stock = "False"
    /\ data[result.asin].in_stock = "False"
    /\ data[result.asin].consecutive_errors = 1

\* C27: a transition to in stock is notified at most once, also across
\* kills and restarts: when the restock notification is sent the state file
\* already holds the product as in stock, and no check that finds in stock
\* a product whose last recorded availability was in stock, in this or in
\* an earlier run of the process, sends a restock notification.
C27_AtMostOncePerTransition ==
    [][/\ pc' = "notify_restock" =>
              /\ disk'.exists /\ disk'.readable
              /\ result'.asin \in DOMAIN disk'.content
              /\ disk'.content[result'.asin].in_stock = "True"
       /\ (/\ pc = "record"
           /\ ok(result)
           /\ result.in_stock = "True"
           /\ written.recorded[result.asin] = "True")
              => pc' # "notify_restock"]_vars

\* C28: record_alert follows every restock notification attempt, whatever
\* the notifiers did: last_alert is stamped with the time of the check, the
\* product stays recorded in stock, the state is saved, and a later check
\* that finds the product still in stock attempts no restock notification.
C28_AlertStampedWhateverDelivery ==
    [][/\ pc = "notify_restock" => pc' = "record_alert"
       /\ pc = "record_alert" =>
              /\ "send_restock" \in events
              /\ data'[result.asin].last_alert = <<now>>
              /\ data'[result.asin].in_stock = "True"
              /\ disk' \in {save(data', disk, o) : o \in SaveOutcomes}
              /\ pc' = "pause"
       /\ (/\ pc = "record"
           /\ ok(result)
           /\ result.in_stock = "True"
           /\ data[result.asin].in_stock = "True"
           /\ data[result.asin].last_alert # <<>>)
              => pc' # "notify_restock"]_vars

\* no notifier delivered the restock notification, and the product is
\* recorded in stock with last_alert stamped, in memory and in the file
C28_Witness ==
    /\ pc = "pause"
    /\ events = {"send_restock", "not delivered"}
    /\ data[result.asin].in_stock = "True"
    /\ data[result.asin].last_alert = <<now>>
    /\ disk = GoodFile(data)

-----------------------------------------------------------------------------
(* Properties of the browser session shared by the checks of a cycle       *)

\* the i-th check of this cycle failed and brought the error count of its
\* item to a multiple of 3
Triggered(i) ==
    /\ Errors(data, checked[i]) > 0
    /\ Errors(data, checked[i]) % 3 = 0

\* C24 as stated: every check of a cycle is handed the page the first check
\* of the cycle was handed, also after a rotation.
C24_SamePageWholeCycle ==
    \A i \in 1..Len(used_pages) : used_pages[i] = used_pages[1]

\* C24, amended: every check is handed the page the BrowserManager holds at
\* that moment; two consecutive checks of a cycle are handed the same page
\* exactly when the earlier one did not trigger a rotation, and the page
\* created by the rotation otherwise.
C24_CurrentPageEachCheck ==
    /\ pc = "record" => used_pages[Len(used_pages)] = page_id
    /\ Len(used_pages) = Len(checked)
    /\ \A i \in 1..(Len(used_pages) - 1) :
          /\ ~Triggered(i) => used_pages[i + 1] = used_pages[i]
          /\ Triggered(i) => used_pages[i + 1] = used_pages[i] + 1

\* the first item of a cycle triggered a rotation and the second item was
\* checked on the page created by it
C24_Witness ==
    /\ pc = "cycle_end"
    /\ Len(used_pages) = 2
    /\ Triggered(1)
    /\ ~Triggered(2)
    /\ used_pages[2] = used_pages[1] + 1
    /\ page_id = used_pages[2]

\* C30: rotation is decided item by item: at the end of a cycle the session
\* has been rotated once for every item whose failed check brought its own
\* error count to a multiple of 3, and the item checked after a rotation was
\* handed the page of the new context.
C30_RotationPerItem ==
    /\ pc = "rotate" => Triggered(Len(checked))
    /\ pc = "cycle_end" =>
          /\ rotations = Cardinality({i \in 1..Len(checked) : Triggered(i)})
          /\ page_id = used_pages[1] + rotations
          /\ \A i \in 1..(Len(checked) - 1) :
                Triggered(i) => used_pages[i + 1] > used_pages[i]

\* both items of the list reached an error count that is a multiple of 3 in
\* the same cycle: two rotations, the second item checked on the context of
\* the first rotation
C30_Witness ==
    /\ pc = "cycle_end"
    /\ Len(checked) = 2
    /\ Triggered(1)
    /\ Triggered(2)
    /\ rotations = 2
    /\ used_pages[2] = used_pages[1] + 1
    /\ page_id = used_pages[1] + 2

-----------------------------------------------------------------------------
(* Properties of the error streak across restarts and of the warmup cadence *)

\* C31: the error streak is durable: the process started again holds for
\* every ASIN the consecutive_errors the stopped process had reached, the
\* next failed check counts on from it, and the rotation (multiples of 3)
\* and the error notification (exactly 5) are decided on that total.
C31_StreakSurvivesRestart ==
    [][/\ restarts' = restarts + 1 =>
              \A a \in ASINS : Errors(data', a) = Errors(data, a)
       /\ (pc = "record" /\ ~ok(result) /\ restarts' = restarts) =>
              /\ error_count' = Errors(data, result.asin) + 1
              /\ (pc' = "notify_error") <=> (error_count' = 5)
              /\ (pc' = "rotate") =>
                     (error_count' >= 3 /\ error_count' % 3 = 0)]_vars

\* C32: at the top of a cycle whose configuration could be read or kept,
\* the warmup and the cookie save run, before any item is checked, exactly
\* when the 1-based cycle number is a multiple of the warmup cadence now
\* loaded, and for every cadence, 0 and negative ones included, the poll
\* loop goes on to the checks of the cycle.
C32_WarmupCadence ==
    [][(/\ pc = "cycle"
        /\ cycle_count' = cycle_count + 1
        /\ from_file(config_file).kind # "exit") =>
           LET n == config'.warmup_every_n_cycles
               due == \E k \in (-cycle_count')..cycle_count' :
                          cycle_count' = k * n
           IN  /\ pc' = "check"
               /\ checked' = <<>>
               /\ ("warmup" \in events') <=> due
               /\ ("save_session" \in events') <=> due]_vars

====
